---------------------------- MODULE Spec2Model ----------------------------
(***************************************************************************)
(* Model of calendar_worklog.py: the month window, the window resolver,    *)
(* the provider fetch loop and the aggregation loop.                       *)
(*                                                                         *)
(* Time is counted in ticks of one hour.  A datetime is a record           *)
(*   [wall |-> civil hours since 0001-01-01T00:00, tz |-> tzinfo,          *)
(*    fold |-> 0 or 1]                                                     *)
(* and a tzinfo is [kind |-> "zone" | "fixed" | "naive", key, off].        *)
(* Comparison and subtraction follow Python's datetime: two datetimes      *)
(* that share one tzinfo object are compared and subtracted by their wall  *)
(* clock, all others by their UTC instants, and an aware datetime cannot   *)
(* be compared with a naive one (TypeError).                               *)
(***************************************************************************)
EXTENDS Integers, Sequences, FiniteSets, TLC

VARIABLES
    pc,             \* position of the program
    month,          \* the --month argument, a sequence of characters
    timezone_name,  \* the --timezone argument
    month_window,   \* MonthWindow returned by parse_month_window, or None
    flag,           \* include_through_month_end
    current,        \* "now" as resolve_aggregation_window reads it, or None
    window,         \* MonthWindow the aggregation runs over, or None
    requests,       \* provider requests issued by fetch_events_for_window
    events,         \* list of raw events
    target_title,   \* the --title argument
    idx,            \* number of events the aggregation loop has consumed
    total_seconds,  \* accumulator of aggregate_event_seconds
    matched_count,  \* accumulator of aggregate_event_seconds
    details,        \* accumulator of aggregate_event_seconds
    exc             \* the exception that ended the run, or "none"

vars == <<pc, month, timezone_name, month_window, flag, current, window,
          requests, events, target_title, idx, total_seconds, matched_count,
          details, exc>>

None == [kind |-> "None"]

\* Bounds of the model.
MaxEvents == 2
MaxPages == 2

-----------------------------------------------------------------------------
(* tzinfo objects *)

Zone(key) == [kind |-> "zone", key |-> key, off |-> 0]

Fixed(off) == [kind |-> "fixed", key |-> "", off |-> off]

Naive == [kind |-> "naive", key |-> "", off |-> 0]

DEFAULT_TIMEZONE == "Asia/Tokyo"

DstZone == "America/New_York"

ZoneNames == {DEFAULT_TIMEZONE, DstZone}

-----------------------------------------------------------------------------
(* The proleptic Gregorian calendar of datetime, in hours. *)

IsLeap(y) == (y % 4 = 0) /\ ((y % 100 # 0) \/ (y % 400 = 0))

DaysInMonth(y, m) ==
    IF m = 2 THEN (IF IsLeap(y) THEN 29 ELSE 28)
    ELSE IF m \in {4, 6, 9, 11} THEN 30 ELSE 31

DaysBeforeYear(y) ==
    LET p == y - 1 IN 365 * p + (p \div 4) - (p \div 100) + (p \div 400)

RECURSIVE DaysBeforeMonth(_, _)
DaysBeforeMonth(y, m) ==
    IF m = 1 THEN 0 ELSE DaysBeforeMonth(y, m - 1) + DaysInMonth(y, m - 1)

\* Civil hours since 0001-01-01T00:00 of year-month-day hour:00.
CivilWall(y, m, d, h) ==
    (DaysBeforeYear(y) + DaysBeforeMonth(y, m) + (d - 1)) * 24 + h

\* Years datetime() accepts (MINYEAR..MAXYEAR); any other year is a ValueError.
ValidYears == 1 .. 9999

-----------------------------------------------------------------------------
(* The zone database, for the years the model's months lie in.             *)
(* America/New_York 2026: daylight time from 8 March 02:00 (wall clock     *)
(* jumps to 03:00) to 1 November 02:00 (wall clock falls back to 01:00);   *)
(* Asia/Tokyo has no transitions.                                          *)

DstBeginWall == CivilWall(2026, 3, 8, 3)

DstEndWall == CivilWall(2026, 11, 1, 2)

ZoneOffset(key, wall, fold) ==
    IF key = DEFAULT_TIMEZONE THEN 9
    ELSE IF wall >= DstBeginWall /\ wall < DstEndWall
         THEN (IF fold = 1 /\ wall >= DstEndWall - 1 THEN -5 ELSE -4)
         ELSE -5

UtcOffset(dt) ==
    IF dt.tz.kind = "zone" THEN ZoneOffset(dt.tz.key, dt.wall, dt.fold)
    ELSE dt.tz.off

\* The UTC instant of an aware datetime, in hours.
Instant(dt) == dt.wall - UtcOffset(dt)

\* datetime.astimezone / datetime.now(tz): the wall clock of a UTC instant.
FromInstant(utc, tz) ==
    IF tz.kind = "fixed" THEN [wall |-> utc + tz.off, tz |-> tz, fold |-> 0]
    ELSE IF tz.key = DEFAULT_TIMEZONE THEN [wall |-> utc + 9, tz |-> tz, fold |-> 0]
    ELSE IF utc - 5 < DstBeginWall - 1 THEN [wall |-> utc - 5, tz |-> tz, fold |-> 0]
    ELSE IF utc - 4 < DstEndWall THEN [wall |-> utc - 4, tz |-> tz, fold |-> 0]
    ELSE [wall |-> utc - 5, tz |-> tz,
          fold |-> IF utc - 5 < DstEndWall THEN 1 ELSE 0]

\* An aware datetime against a naive one: Python raises TypeError.
Comparable(a, b) == (a.tz.kind = "naive") <=> (b.tz.kind = "naive")

\* a < b as datetime.__lt__ decides it.
DtLess(a, b) ==
    IF a.tz = b.tz \/ UtcOffset(a) = UtcOffset(b) THEN a.wall < b.wall
    ELSE Instant(a) < Instant(b)

\* a == b as datetime.__eq__ decides it.
DtEq(a, b) ==
    IF a.tz = b.tz \/ UtcOffset(a) = UtcOffset(b) THEN a.wall = b.wall
    ELSE Instant(a) = Instant(b)

\* (a - b) in hours as datetime.__sub__ decides it.
DtSub(a, b) ==
    IF a.tz = b.tz THEN a.wall - b.wall ELSE Instant(a) - Instant(b)

\* max(a, b) and min(a, b) of the builtins: the first argument wins a tie.
PyMax(a, b) == IF DtLess(a, b) THEN b ELSE a

PyMin(a, b) == IF DtLess(b, a) THEN b ELSE a

-----------------------------------------------------------------------------
(* parse_month_window *)

Digits == {"0", "1", "2", "3", "4", "5", "6", "7", "8", "9"}

DigitValue(c) ==
    CASE c = "0" -> 0 [] c = "1" -> 1 [] c = "2" -> 2 [] c = "3" -> 3
      [] c = "4" -> 4 [] c = "5" -> 5 [] c = "6" -> 6 [] c = "7" -> 7
      [] c = "8" -> 8 [] OTHER -> 9

\* str.split("-") from position i on, cur being the part read so far.
RECURSIVE SplitFrom(_, _, _)
SplitFrom(s, i, cur) ==
    IF i > Len(s) THEN <<cur>>
    ELSE IF s[i] = "-" THEN <<cur>> \o SplitFrom(s, i + 1, <<>>)
    ELSE SplitFrom(s, i + 1, Append(cur, s[i]))

Split(s) == SplitFrom(s, 1, <<>>)

\* Whether int(p) returns: an optional "+" and then one digit or more.
IsIntLiteral(p) ==
    LET body == IF Len(p) > 0 /\ p[1] = "+" THEN Tail(p) ELSE p
    IN  Len(body) > 0 /\ \A i \in 1 .. Len(body) : body[i] \in Digits

RECURSIVE DecimalValue(_)
DecimalValue(ds) ==
    IF Len(ds) = 0 THEN 0
    ELSE 10 * DecimalValue(SubSeq(ds, 1, Len(ds) - 1)) + DigitValue(ds[Len(ds)])

IntValue(p) == DecimalValue(IF p[1] = "+" THEN Tail(p) ELSE p)

FormatError == "WorklogError: --month must be in YYYY-MM format."

TimezoneError == "WorklogError: Invalid timezone"

Raise(e) == [exc |-> e, value |-> None]

Return(v) == [exc |-> "none", value |-> v]

\* datetime(year, month, 1, 0, 0, 0, tzinfo=tz)
FirstOfMonth(year, month_value, tz) ==
    [wall |-> CivilWall(year, month_value, 1, 0), tz |-> tz, fold |-> 0]

MonthWindow(start, end) == [start |-> start, end |-> end]

\* NextMonth without the roll-over of the year after December.
NextMonthSameYear(year, month_value) ==
    [year |-> year, month |-> IF month_value = 12 THEN 1 ELSE month_value + 1]

\* The year and month of the window's end.
NextMonth(year, month_value) ==
    IF month_value = 12 THEN [year |-> year + 1, month |-> 1]
    ELSE [year |-> year, month |-> month_value + 1]

parse_month_window(m, tzname) ==
    LET parts == Split(m) IN
    IF Len(parts) # 2 THEN Raise(FormatError)
    ELSE IF ~(IsIntLiteral(parts[1]) /\ IsIntLiteral(parts[2])) THEN Raise(FormatError)
    ELSE LET year == IntValue(parts[1])
             month_value == IntValue(parts[2])
             nxt == NextMonth(year, month_value)
         IN  IF month_value < 1 \/ month_value > 12 THEN Raise(FormatError)
             ELSE IF tzname \notin ZoneNames THEN Raise(TimezoneError)
             ELSE IF year \notin ValidYears \/ nxt.year \notin ValidYears
                  THEN Raise("ValueError")
             ELSE Return(MonthWindow(FirstOfMonth(year, month_value, Zone(tzname)),
                                     FirstOfMonth(nxt.year, nxt.month, Zone(tzname))))

-----------------------------------------------------------------------------
(* resolve_aggregation_window *)

\* current.astimezone(tz): the same object when current is already in tz.
AsTimezone(dt, tz) == IF dt.tz = tz THEN dt ELSE FromInstant(Instant(dt), tz)

\* resolve_aggregation_window without its early return on the flag.
resolve_ignoring_flag(mw, include_through_month_end, cur) ==
    MonthWindow(mw.start, PyMin(mw.end, AsTimezone(cur, mw.start.tz)))

resolve_aggregation_window(mw, include_through_month_end, cur) ==
    IF include_through_month_end THEN mw
    ELSE LET current_in_tz == AsTimezone(cur, mw.start.tz)
             capped_end == PyMin(mw.end, current_in_tz)
         IN  MonthWindow(mw.start, capped_end)

-----------------------------------------------------------------------------
(* Raw events.  A raw event is                                             *)
(*   [status, summary, start, end]                                         *)
(* status is a string or NoStatus (key absent), summary a sequence of      *)
(* characters or NoSummary, start and end are [date, dateTime]: date says  *)
(* whether the "date" key is present, dateTime is the value of the         *)
(* "dateTime" key: None (key absent) or a text                             *)
(*   [form |-> "iso" | "garbage" | "empty", wall, suffix |-> "Z" | "offset" *)
(*    | "none", off]                                                       *)
(* "iso" is an ISO 8601 timestamp whose civil reading is wall, followed by *)
(* a "Z", by a numeric UTC offset of off hours, or by nothing.             *)

NoStatus == "<absent>"

NoSummary == <<"<absent>">>

Iso(wall, suffix, off) == [form |-> "iso", wall |-> wall, suffix |-> suffix, off |-> off]

Garbage == [form |-> "garbage", wall |-> 0, suffix |-> "none", off |-> 0]

EmptyText == [form |-> "empty", wall |-> 0, suffix |-> "none", off |-> 0]

Timed(text) == [date |-> FALSE, dateTime |-> text]

DateOnly == [date |-> TRUE, dateTime |-> None]

RawEvent(status, summary, start, end) ==
    [status |-> status, summary |-> summary, start |-> start, end |-> end]

\* is_all_day_event looking at the start alone.
is_all_day_event_start_only(event) == event.start.date

is_all_day_event(event) == event.start.date \/ event.end.date

\* value.replace("Z", "+00:00")
ReplaceZ(value) ==
    IF value.form = "iso" /\ value.suffix = "Z"
    THEN [value EXCEPT !.suffix = "offset", !.off = 0]
    ELSE value

\* datetime.fromisoformat: ValueError on a text that is not ISO 8601, a naive
\* datetime for a timestamp without an offset.
FromIsoFormat(value) ==
    IF value.form # "iso" THEN Raise("ValueError")
    ELSE IF value.suffix = "offset"
         THEN Return([wall |-> value.wall, tz |-> Fixed(value.off), fold |-> 0])
    ELSE IF value.suffix = "none"
         THEN Return([wall |-> value.wall, tz |-> Naive, fold |-> 0])
    ELSE Raise("ValueError")

parse_event_datetime(value) == FromIsoFormat(ReplaceZ(value))

\* timedelta.total_seconds() of a difference of h hours.
TotalSeconds(h) == h * 3600

overlap_seconds(event_start, event_end, w) ==
    IF ~Comparable(event_start, w.start) THEN Raise("TypeError")
    ELSE IF ~Comparable(event_end, w.end) THEN Raise("TypeError")
    ELSE LET effective_start == PyMax(event_start, w.start)
             effective_end == PyMin(event_end, w.end)
         IN  IF ~DtLess(effective_start, effective_end) THEN Return(0)
             ELSE Return(TotalSeconds(DtSub(effective_end, effective_start)))

\* `not start_raw`: the key is absent or the text is empty.
Falsy(raw) == raw = None \/ raw.form = "empty"

MatchedEventDetail(title, start, end, counted_seconds) ==
    [title |-> title, start |-> start, end |-> end, counted_seconds |-> counted_seconds]

\* The test of the loop with >= for >.
CountsZero(seconds) == seconds >= 0

\* `if seconds > 0`
Counts(seconds) == seconds > 0

\* The accumulators of aggregate_event_seconds; exc is the exception that
\* left the loop, or "none".
Accumulators(total, count, ds, e) ==
    [total_seconds |-> total, matched_count |-> count, details |-> ds, exc |-> e]

\* One pass of the loop body of aggregate_event_seconds over `event`.
LoopBody(acc, event, title, w) ==
    IF event.status = "cancelled" THEN acc
    ELSE IF event.summary # title THEN acc
    ELSE IF is_all_day_event(event) THEN acc
    ELSE LET start_raw == event.start.dateTime
             end_raw == event.end.dateTime
         IN  IF Falsy(start_raw) \/ Falsy(end_raw) THEN acc
             ELSE LET ps == parse_event_datetime(start_raw)
                      pe == parse_event_datetime(end_raw)
                  IN  IF ps.exc = "ValueError" \/ pe.exc = "ValueError" THEN acc
                      ELSE LET seconds == overlap_seconds(ps.value, pe.value, w) IN
                           IF seconds.exc # "none" THEN [acc EXCEPT !.exc = seconds.exc]
                           ELSE IF Counts(seconds.value)
                           THEN Accumulators(
                                    acc.total_seconds + seconds.value,
                                    acc.matched_count + 1,
                                    Append(acc.details,
                                           MatchedEventDetail(title, ps.value, pe.value,
                                                              seconds.value)),
                                    "none")
                           ELSE acc

\* (a.start, a.end) < (b.start, b.end) as tuples compare.
KeyLess(a, b) ==
    IF ~DtEq(a.start, b.start) THEN DtLess(a.start, b.start)
    ELSE IF ~DtEq(a.end, b.end) THEN DtLess(a.end, b.end)
    ELSE FALSE

\* d put into the sorted list ds behind every element that is not greater.
RECURSIVE InsertSorted(_, _)
InsertSorted(ds, d) ==
    IF Len(ds) = 0 THEN <<d>>
    ELSE IF KeyLess(d, Head(ds)) THEN <<d>> \o ds
    ELSE <<Head(ds)>> \o InsertSorted(Tail(ds), d)

\* The details left in the order of the input.
Unsorted(ds) == ds

\* details.sort(key=(start, end)): a stable sort.
RECURSIVE SortDetails(_)
SortDetails(ds) ==
    IF Len(ds) = 0 THEN <<>>
    ELSE InsertSorted(SortDetails(SubSeq(ds, 1, Len(ds) - 1)), ds[Len(ds)])

\* The loop of aggregate_event_seconds over evs; an exception ends it.
RECURSIVE Loop(_, _, _)
Loop(evs, title, w) ==
    IF Len(evs) = 0 THEN Accumulators(0, 0, <<>>, "none")
    ELSE LET acc == Loop(SubSeq(evs, 1, Len(evs) - 1), title, w) IN
         IF acc.exc # "none" THEN acc ELSE LoopBody(acc, evs[Len(evs)], title, w)

aggregate_event_seconds(evs, title, w) ==
    LET acc == Loop(evs, title, w) IN
    IF acc.exc # "none" THEN acc ELSE [acc EXCEPT !.details = SortDetails(@)]

-----------------------------------------------------------------------------
(* Inputs *)

Title == <<"A", "b">>

TargetTitles == {Title}

Y2026 == <<"2", "0", "2", "6">>

MonthStrings ==
    { Y2026 \o <<"-", "0", "3">>,            \* 2026-03
      Y2026 \o <<"-", "1", "1">>,            \* 2026-11
      Y2026 \o <<"-", "1", "2">>,            \* 2026-12
      Y2026 \o <<"-", "+", "3">>,            \* 2026-+3
      Y2026 \o <<"-", "1", "3">>,            \* 2026-13
      Y2026 \o <<"-", "0">>,                 \* 2026-0
      Y2026,                                 \* 2026
      Y2026 \o <<"-", "0", "3", "-", "0", "1">>,   \* 2026-03-01
      Y2026 \o <<"-", "x">>,                 \* 2026-x
      <<"x", "-", "0", "3">>,                \* x-03
      Y2026 \o <<"-">>,                      \* 2026-
      <<"-", "1">>,                          \* -1
      <<>>,                                  \* the empty string
      <<"0", "-", "0", "1">>,                \* 0-01
      <<"9", "9", "9", "9", "-", "1", "2">> } \* 9999-12

TimezoneNames == ZoneNames \cup {"Mars/Olympus"}

\* The instants "now" is drawn from, around the month window mw.
NowInstants(mw) ==
    LET S == Instant(mw.start)
        E == Instant(mw.end)
    IN  {S - 1, S, S + 1, S + 2, E - 1, E, E + 1}

\* "now": the clock read in the window's zone, or an override given in UTC.
CurrentChoices(mw) ==
    {FromInstant(t, mw.start.tz) : t \in NowInstants(mw)}
        \cup {FromInstant(t, Fixed(0)) : t \in {Instant(mw.start) + 1, Instant(mw.end)}}

At(t, off) == Timed(Iso(t + off, "offset", off))

AtZ(t) == Timed(Iso(t, "Z", 0))

NaiveAt(t) == Timed(Iso(t, "none", 0))

\* Timed events titled `title` around the window w, as a provider returns them.
TimedPool(title, w) ==
    LET S == Instant(w.start)
        E == Instant(w.end)
    IN  { RawEvent("confirmed", title, At(S - 1, 9), At(S, 9)),
          RawEvent("confirmed", title, At(S - 1, -5), At(S + 1, -5)),
          RawEvent("confirmed", title, At(S, 9), At(E, 9)),
          RawEvent("confirmed", title, AtZ(S), AtZ(S + 1)),
          RawEvent("confirmed", title, At(E - 1, 9), At(E + 1, 9)),
          RawEvent("confirmed", title, AtZ(E), AtZ(E + 1)),
          RawEvent("confirmed", title, AtZ(S - 1), AtZ(E + 1)) }

\* Events the filters of the loop are about, and malformed ones.
OddPool(title, w) ==
    LET S == Instant(w.start)
        a == AtZ(S)
        b == AtZ(S + 1)
    IN  { RawEvent(NoStatus, title, a, b),
          RawEvent("cancelled", title, a, b),
          RawEvent("confirmed", SubSeq(title, 1, Len(title) - 1), a, b),
          RawEvent("confirmed", title \o <<"c">>, a, b),
          RawEvent("confirmed", title \o <<" ">>, a, b),
          RawEvent("confirmed", <<"a", "b">>, a, b),
          RawEvent("confirmed", NoSummary, a, b),
          RawEvent("confirmed", title, DateOnly, DateOnly),
          RawEvent("confirmed", title, [date |-> TRUE, dateTime |-> a.dateTime], b),
          RawEvent("confirmed", title, a, [date |-> TRUE, dateTime |-> b.dateTime]),
          RawEvent("confirmed", title, Timed(None), b),
          RawEvent("confirmed", title, a, Timed(EmptyText)),
          RawEvent("confirmed", title, Timed(Garbage), b),
          RawEvent("confirmed", title, NaiveAt(S), NaiveAt(S + 1)) }

SeqsUpTo(S, n) == UNION {[1 .. k -> S] : k \in 0 .. n}

\* Windows aggregate_event_seconds is called with directly: month windows,
\* and windows capped two hours after, at, and one hour before their start.
DirectWindows ==
    LET bases == {parse_month_window(m, tz).value :
                      m \in {Y2026 \o <<"-", "0", "3">>, Y2026 \o <<"-", "1", "1">>},
                      tz \in ZoneNames}
    IN  bases \cup UNION {
            {resolve_aggregation_window(mw, FALSE, FromInstant(Instant(mw.start) + d,
                                                               mw.start.tz)) :
                 d \in {-1, 0, 2}} : mw \in bases}

-----------------------------------------------------------------------------
(* The program *)

Init ==
    /\ pc = "start"
    /\ month = <<>>
    /\ timezone_name = ""
    /\ month_window = None
    /\ flag = FALSE
    /\ current = None
    /\ window = None
    /\ requests = 0
    /\ events = <<>>
    /\ target_title \in TargetTitles
    /\ idx = 0
    /\ total_seconds = 0
    /\ matched_count = 0
    /\ details = <<>>
    /\ exc = "none"

\* main: month_window = parse_month_window(args.month, args.timezone)
ParseMonthWindow ==
    /\ pc = "start"
    /\ \E m \in MonthStrings, tz \in TimezoneNames :
          LET r == parse_month_window(m, tz) IN
          /\ month' = m
          /\ timezone_name' = tz
          /\ month_window' = r.value
          /\ exc' = r.exc
          /\ pc' = IF r.exc = "none" THEN "parsed" ELSE "failed"
    /\ UNCHANGED <<flag, current, window, requests, events, target_title, idx,
                   total_seconds, matched_count, details>>

\* main: window = resolve_aggregation_window(month_window, flag)
ResolveAggregationWindow ==
    /\ pc = "parsed"
    /\ \E f \in BOOLEAN, c \in CurrentChoices(month_window) :
          /\ flag' = f
          /\ current' = c
          /\ window' = resolve_aggregation_window(month_window, f, c)
    /\ pc' = "resolved"
    /\ UNCHANGED <<month, timezone_name, month_window, requests, events,
                   target_title, idx, total_seconds, matched_count, details, exc>>

\* window.end <= window.start
Inverted(w) == ~DtLess(w.start, w.end)

\* fetch_events_for_window: the early return on an empty window.
FetchNothing ==
    /\ pc = "resolved"
    /\ Inverted(window)
    /\ events' = <<>>
    /\ current' = None
    /\ pc' = "aggregating"
    /\ UNCHANGED <<month, timezone_name, month_window, flag, window, requests,
                   target_title, idx, total_seconds, matched_count, details, exc>>

\* fetch_events_for_window: one request of the loop and the page it returns.
FetchPage ==
    /\ pc \in {"resolved", "fetching"}
    /\ ~Inverted(window)
    /\ \E items \in SeqsUpTo(TimedPool(target_title, window), MaxEvents - Len(events)),
          more \in BOOLEAN :
          /\ more => requests + 1 < MaxPages
          /\ requests' = requests + 1
          /\ events' = events \o items
          /\ pc' = IF more THEN "fetching" ELSE "aggregating"
    /\ current' = None
    /\ UNCHANGED <<month, timezone_name, month_window, flag, window,
                   target_title, idx, total_seconds, matched_count, details, exc>>

\* aggregate_event_seconds called on its own, as the tests call it.
CallAggregate ==
    /\ pc = "start"
    /\ \E w \in DirectWindows :
          \E evs \in SeqsUpTo(TimedPool(target_title, w) \cup OddPool(target_title, w),
                              MaxEvents) :
             /\ window' = w
             /\ events' = evs
    /\ pc' = "aggregating"
    /\ UNCHANGED <<month, timezone_name, month_window, flag, current, requests,
                   target_title, idx, total_seconds, matched_count, details, exc>>

\* aggregate_event_seconds: one iteration of `for event in events`.
AggregateEvent ==
    /\ pc = "aggregating"
    /\ idx < Len(events)
    /\ LET acc == LoopBody(Accumulators(total_seconds, matched_count, details, "none"),
                           events[idx + 1], target_title, window)
       IN  /\ total_seconds' = acc.total_seconds
           /\ matched_count' = acc.matched_count
           /\ details' = acc.details
           /\ exc' = acc.exc
           /\ pc' = IF acc.exc = "none" THEN "aggregating" ELSE "failed"
           /\ idx' = IF acc.exc = "none" THEN idx + 1 ELSE idx
    /\ UNCHANGED <<month, timezone_name, month_window, flag, current, window,
                   requests, events, target_title>>

\* aggregate_event_seconds: the sort after the loop, and the return.
AggregateReturn ==
    /\ pc = "aggregating"
    /\ idx = Len(events)
    /\ details' = SortDetails(details)
    /\ pc' = "done"
    /\ UNCHANGED <<month, timezone_name, month_window, flag, current, window,
                   requests, events, target_title, idx, total_seconds,
                   matched_count, exc>>

Next ==
    \/ ParseMonthWindow
    \/ ResolveAggregationWindow
    \/ FetchNothing
    \/ FetchPage
    \/ CallAggregate
    \/ AggregateEvent
    \/ AggregateReturn

Spec == Init /\ [][Next]_vars

-----------------------------------------------------------------------------
(* Properties.  They speak of instants: S and E are the window's start and *)
(* end, and an event's start and end are the instants its texts denote.    *)

Min(a, b) == IF a < b THEN a ELSE b

Max(a, b) == IF a < b THEN b ELSE a

InAggregation == pc \in {"aggregating", "done"}

\* The event passes the filters on status, title and all-day markers.
Eligible(e) ==
    /\ e.status # "cancelled"
    /\ e.summary = target_title
    /\ ~e.start.date
    /\ ~e.end.date

\* A text that denotes an instant: ISO 8601 with a "Z" or a UTC offset.
Denotes(raw) == raw # None /\ raw.form = "iso" /\ raw.suffix \in {"Z", "offset"}

InstantOf(raw) == IF raw.suffix = "Z" THEN raw.wall ELSE raw.wall - raw.off

\* An eligible event whose start and end both denote instants.
TimedEvent(e) == Eligible(e) /\ Denotes(e.start.dateTime) /\ Denotes(e.end.dateTime)

\* Seconds of [es, ee] that lie inside [S, E], for S < E and es < ee.
Clipped(es, ee, S, E) ==
    IF ee <= S \/ es >= E THEN 0
    ELSE IF S <= es /\ ee <= E THEN (ee - es) * 3600
    ELSE (Min(ee, E) - Max(es, S)) * 3600

\* Real seconds an event shares with the window w.
RealOverlap(es, ee, w) ==
    LET lo == Max(es, Instant(w.start))
        hi == Min(ee, Instant(w.end))
    IN  IF hi <= lo THEN 0 ELSE (hi - lo) * 3600

RECURSIVE SumCounted(_)
SumCounted(ds) ==
    IF Len(ds) = 0 THEN 0 ELSE Head(ds).counted_seconds + SumCounted(Tail(ds))

\* The result of the run so far, as aggregate_event_seconds would return it.
Outcome == Accumulators(total_seconds, matched_count, details, exc)

\* The aggregation raised (and not the parsing of the month).
AggregationRaised == pc = "failed" /\ window # None

\* C1: for a timed event and a window with start < end, overlap_seconds is 0
\* when the event lies outside the window, the event's whole duration when it
\* lies inside, and the part inside the window when it straddles a boundary.
C1_OverlapIsClipping ==
    (window # None /\ Instant(window.start) < Instant(window.end)) =>
        \A i \in 1 .. Len(events) :
            LET e == events[i] IN
            (TimedEvent(e) /\ InstantOf(e.start.dateTime) < InstantOf(e.end.dateTime)) =>
                overlap_seconds(parse_event_datetime(e.start.dateTime).value,
                                parse_event_datetime(e.end.dateTime).value,
                                window).value
                    = Clipped(InstantOf(e.start.dateTime), InstantOf(e.end.dateTime),
                              Instant(window.start), Instant(window.end))

\* C2: every counted event is not cancelled, carries exactly the target title
\* and has no "date" key; cancelled, all-day and other-title events in the
\* input do not change the result.
C2_OnlyEligibleEventsCount ==
    /\ InAggregation =>
          /\ matched_count <= Cardinality({i \in 1 .. idx : Eligible(events[i])})
          /\ \A j \in 1 .. Len(details) :
                \E i \in 1 .. idx :
                    /\ Eligible(events[i])
                    /\ ~Falsy(events[i].start.dateTime)
                    /\ ~Falsy(events[i].end.dateTime)
                    /\ parse_event_datetime(events[i].start.dateTime).value = details[j].start
                    /\ parse_event_datetime(events[i].end.dateTime).value = details[j].end
    /\ (pc = "done" \/ AggregationRaised) =>
          Outcome = aggregate_event_seconds(SelectSeq(events, Eligible), target_title, window)

C2_Witness ==
    /\ pc = "done"
    /\ matched_count = 1
    /\ Len(events) = 2
    /\ \E i \in 1 .. 2 : ~Eligible(events[i])

\* C3: the aggregation never raises; an event with a missing summary or
\* status, a missing, empty or malformed timed value is skipped, and the rest
\* is aggregated as if it were absent.
C3_MalformedEventsAreSkipped ==
    /\ ~AggregationRaised
    /\ pc = "done" =>
          Outcome = aggregate_event_seconds(SelectSeq(events, TimedEvent), target_title, window)

\* C4: the returned details are sorted ascending by (start, end), as instants.
C4_DetailsSorted ==
    pc = "done" =>
        \A i \in 1 .. Len(details) - 1 :
            \/ Instant(details[i].start) < Instant(details[i + 1].start)
            \/ /\ Instant(details[i].start) = Instant(details[i + 1].start)
               /\ Instant(details[i].end) <= Instant(details[i + 1].end)

\* The input listed two counted events in descending order.
C4_Witness ==
    /\ pc = "done"
    /\ Len(events) = 2
    /\ matched_count = 2
    /\ InstantOf(events[2].start.dateTime) < InstantOf(events[1].start.dateTime)
    /\ Instant(details[1].start) = InstantOf(events[2].start.dateTime)

\* C5: after every step of the loop and in the result, matched_count is the
\* number of details, every detail counts more than zero seconds and shares
\* real time with the window, and total_seconds is the sum of the details'
\* counted_seconds.
C5_CountsAndTotalsAgree ==
    window # None =>
        /\ matched_count = Len(details)
        /\ \A j \in 1 .. Len(details) :
              /\ details[j].counted_seconds > 0
              /\ RealOverlap(Instant(details[j].start), Instant(details[j].end), window) > 0
        /\ total_seconds = SumCounted(details)

\* Two timed events were read; one has no overlap and is not counted.
C5_Witness ==
    /\ pc = "done"
    /\ Len(events) = 2
    /\ \A i \in 1 .. 2 : TimedEvent(events[i])
    /\ matched_count = 1
    /\ total_seconds > 0

\* C6: with include_through_month_end the month window is returned unchanged;
\* without it the start is kept and the end is min(month end, now).
C6_ResolveCapsAtNow ==
    pc = "resolved" =>
        IF flag THEN window = month_window
        ELSE /\ window.start = month_window.start
             /\ window.end.tz = month_window.start.tz
             /\ Instant(window.end) = Min(Instant(month_window.end), Instant(current))

\* "now" is an override in UTC that lies inside the month.
C6_Witness ==
    /\ pc = "resolved"
    /\ ~flag
    /\ current.tz = Fixed(0)
    /\ Instant(month_window.start) < Instant(current)
    /\ Instant(current) < Instant(month_window.end)
    /\ Instant(window.end) = Instant(current)

\* The month string splits on "-" into two integers, the second in 1..12.
WellFormedMonth(m) ==
    LET parts == Split(m) IN
    /\ Len(parts) = 2
    /\ IsIntLiteral(parts[1])
    /\ IsIntLiteral(parts[2])
    /\ IntValue(parts[2]) \in 1 .. 12

\* dt is 00:00 on day 1 of month m of year y.
IsFirstOf(dt, y, m) == dt.wall = CivilWall(y, m, 1, 0) /\ dt.fold = 0

\* C7: for a valid timezone parse_month_window either returns the window from
\* day 1 of the month to day 1 of the following month, when the string is
\* well formed, or fails with the format error.
C7_ParseHasTwoOutcomes ==
    (pc # "start" /\ timezone_name \in ZoneNames) =>
        IF WellFormedMonth(month)
        THEN LET y == IntValue(Split(month)[1])
                 m == IntValue(Split(month)[2])
             IN  /\ month_window # None
                 /\ IsFirstOf(month_window.start, y, m)
                 /\ IsFirstOf(month_window.end, IF m = 12 THEN y + 1 ELSE y,
                                                IF m = 12 THEN 1 ELSE m + 1)
                 /\ month_window.start.tz = Zone(timezone_name)
                 /\ month_window.end.tz = Zone(timezone_name)
        ELSE pc = "failed" /\ exc = FormatError

\* C8: over a window with end <= start the aggregation returns zero seconds,
\* zero matches and no details, without an error, and the fetch issues no
\* provider request.
C8_EmptyWindowYieldsNothing ==
    (window # None /\ Instant(window.end) <= Instant(window.start)) =>
        /\ pc # "failed"
        /\ requests = 0
        /\ total_seconds = 0 /\ matched_count = 0 /\ details = <<>>

\* C9: the seconds counted for an event are the real time between the
\* clipped start and the clipped end.
C9_CountedSecondsAreElapsedTime ==
    window # None =>
        \A j \in 1 .. Len(details) :
            details[j].counted_seconds
                = RealOverlap(Instant(details[j].start), Instant(details[j].end), window)

\* dt is the first instant of a month of the years the model's months lie in.
IsMonthStart(dt) ==
    /\ dt.tz = Zone(timezone_name)
    /\ \E y \in 2026 .. 2027, m \in 1 .. 12 : IsFirstOf(dt, y, m)

\* C10 as stated: every window of a run starts at the first instant of a
\* month and has start < end.
C10_EveryWindowIsProper ==
    /\ month_window # None =>
          IsMonthStart(month_window.start)
              /\ Instant(month_window.start) < Instant(month_window.end)
    /\ (month_window # None /\ window # None) =>
          IsMonthStart(window.start) /\ Instant(window.start) < Instant(window.end)

\* C10 as amended: the parsed window is proper; the resolved window starts at
\* the same first instant of the month and ends no later than the month, and
\* has start < end exactly when the month end was kept or "now" is after the
\* start.
C10_WindowsAmended ==
    /\ month_window # None =>
          /\ IsMonthStart(month_window.start)
          /\ IsMonthStart(month_window.end)
          /\ Instant(month_window.start) < Instant(month_window.end)
    /\ pc = "resolved" =>
          /\ window.start = month_window.start
          /\ Instant(window.end) <= Instant(month_window.end)
          /\ (Instant(window.start) < Instant(window.end))
                <=> (flag \/ Instant(month_window.start) < Instant(current))

\* "now" is at or before the start of the month and the end is capped to it.
C10_Witness ==
    /\ pc = "resolved"
    /\ ~flag
    /\ Instant(current) <= Instant(month_window.start)
    /\ Instant(window.end) <= Instant(window.start)

=============================================================================
